---- MODULE Spec2Model ----
(***************************************************************************)
(* MyDailyOps offline-first core: the SQLite cache (app/database/          *)
(* offline.py) and the push/pull sync engine (app/utils/sync.py).          *)
(*                                                                         *)
(* Tables are sequences of rows in rowid order.  SQLite hands equal ORDER  *)
(* BY keys back in rowid order, so the two ORDER BY queries are stable     *)
(* sorts of those sequences.  Timestamps (datetime.utcnow().isoformat())   *)
(* are naturals read from the wall clock `now`, which never runs back but  *)
(* may stand still between two calls.                                      *)
(***************************************************************************)
EXTENDS Integers, Sequences, FiniteSets, TLC

VARIABLES
    tasks_cache,      \* table tasks_cache, rows in rowid order
    pending_updates,  \* table pending_updates, rows in rowid order
    seq,              \* sqlite_sequence of pending_updates (AUTOINCREMENT)
    now,              \* wall clock
    last_call,        \* history: the last call of the Local Store / queue API
    last_write,       \* history: per task id, the last cache_upsert / cache_delete
    enqueued,         \* history: the add_pending_update calls since the last drain
    remote,           \* the rows of the Supabase table "tasks"
    sync,             \* the running sync_now call: its position and locals
    tables,           \* the tables that exist in the database file
    all_tasks,        \* TasksScreen.all_tasks
    ui,               \* the running UI handler: its position and what it did
    workers,          \* sync_now calls running on threads of their own
    config_json,      \* the file app/config/config.json
    current_filter,   \* TasksScreen.current_filter
    grouped           \* the last call of group_tasks_by_date: input and result

vars == <<tasks_cache, pending_updates, seq, now, last_call, last_write, enqueued,
          remote, sync, tables, all_tasks, ui, workers, config_json, current_filter,
          grouped>>

\* The preferences of the user: the file and the filter of the tasks screen.
view_vars == <<config_json, current_filter, grouped>>

\* The state of the screens and of the callers outside the Kivy main thread.
app_vars == <<tables, all_tasks, ui, workers>>

queue_vars == <<pending_updates, seq, enqueued>>

-----------------------------------------------------------------------------
\* Bounds of the model.
MaxTime  == 2      \* the clock runs over 1..MaxTime
MaxBatch == 2      \* longest list handed to cache_replace_all
MaxSeq   == 4      \* rows ever inserted into pending_updates
MaxAdds  == 2      \* mutations queued while sync_now runs on threads of its own

\* Values of the model.
Ids    == {"T1", "T2"}
Users  == {"U1", "U2"}
Titles == {<<"a">>, <<"b">>}    \* texts, as sequences of characters
Times  == 1..MaxTime
Statuses == {"new", "done"}
CreatedAts == {1, 2}

\* Python's None / SQL NULL in a timestamp column (NULL sorts before every value).
None == 0
\* A key the task dict does not carry (dict.get falls back to its default).
Absent == -1

\* Task dicts as the callers build them.
TaskDicts ==
    [id : Ids, user_id : Users, title : Titles, status : Statuses,
     created_at : CreatedAts, updated_at : Times \cup {None, Absent}]

\* The tables init_db creates.
AllTables == {"tasks_cache", "pending_updates"}

\* What a handler of a screen did: nothing yet.
NoEvent == [handler |-> "none", kind |-> "none", entries |-> <<>>,
            remote_called |-> FALSE]

\* No handler of a screen is running.
UiIdle == [pc |-> "idle", event |-> NoEvent]

\* The callers of sync_now on threads of their own.
Workers == {"w1", "w2"}

\* group_tasks_by_date has not been called.
NotGrouped == [today |-> 0, tasks |-> <<>>, groups |-> <<>>]

\* config.json before the first save: the file does not exist.
NoFile == [exists |-> FALSE]

-----------------------------------------------------------------------------
\* Generic helpers over sequences.

RECURSIVE SeqFilter(_, _, _)
\* The rows of s (from index i on) whose id is not `id`, order kept.
SeqFilter(s, id, i) ==
    IF i > Len(s) THEN <<>>
    ELSE IF s[i].id = id THEN SeqFilter(s, id, i + 1)
         ELSE <<s[i]>> \o SeqFilter(s, id, i + 1)

HasId(table, id) == \E i \in 1..Len(table) : table[i].id = id

-----------------------------------------------------------------------------
\* Local Store: table tasks_cache.

\* Mutant: updated_at is always the default, whatever the dict carries.
TaskRowAlwaysDefault(task, updated_default, synced) ==
    [id         |-> task.id,
     user_id    |-> task.user_id,
     title      |-> task.title,
     status     |-> task.status,
     created_at |-> task.created_at,
     updated_at |-> updated_default,
     synced     |-> synced]

\* The parameter tuple of the INSERT statements: dict.get with its default for
\* updated_at (None in cache_replace_all, utcnow() in cache_upsert), and the
\* synced literal of the statement.
TaskRow(task, updated_default, synced) ==
    [id         |-> task.id,
     user_id    |-> task.user_id,
     title      |-> task.title,
     status     |-> task.status,
     created_at |-> task.created_at,
     updated_at |-> IF task.updated_at = Absent THEN updated_default
                    ELSE task.updated_at,
     synced     |-> synced]

\* The dict cache_get_all builds from a row (the synced column is not copied).
RowTask(row) ==
    [id         |-> row.id,
     user_id    |-> row.user_id,
     title      |-> row.title,
     status     |-> row.status,
     created_at |-> row.created_at,
     updated_at |-> row.updated_at]

RECURSIVE InsertAll(_, _, _)
\* The loop of plain INSERTs of cache_replace_all from index i on: id is the
\* PRIMARY KEY, so an id already in the table raises and the loop stops.
InsertAll(table, tasks_list, i) ==
    IF i > Len(tasks_list) THEN [ok |-> TRUE, table |-> table]
    ELSE IF HasId(table, tasks_list[i].id) THEN [ok |-> FALSE, table |-> table]
         ELSE InsertAll(Append(table, TaskRow(tasks_list[i], None, 1)),
                        tasks_list, i + 1)

\* Mutant: the except branch commits what the transaction did so far.
ReplaceAllNoRollback(table, tasks_list) == InsertAll(<<>>, tasks_list, 1).table

\* tasks_cache after cache_replace_all(tasks_list): DELETE everything, INSERT
\* every task, commit; on an exception roll the whole transaction back.
ReplaceAllTable(table, tasks_list) ==
    LET r == InsertAll(<<>>, tasks_list, 1) IN IF r.ok THEN r.table ELSE table

\* Mutant: INSERT OR IGNORE, an existing row wins.
UpsertIgnore(table, row) ==
    IF HasId(table, row.id) THEN table ELSE Append(table, row)

\* INSERT OR REPLACE: the row with this id is deleted, the new row is appended
\* under a fresh rowid.
UpsertTable(table, row) == Append(SeqFilter(table, row.id, 1), row)

\* DELETE FROM tasks_cache WHERE id = ?
DeleteTable(table, task_id) == SeqFilter(table, task_id, 1)

RECURSIVE InsertDesc(_, _, _)
\* x put into s (sorted by created_at descending) behind every row whose
\* created_at is not smaller: rows with equal keys keep their rowid order.
InsertDesc(s, x, i) ==
    IF i > Len(s) THEN Append(s, x)
    ELSE IF s[i].created_at >= x.created_at THEN InsertDesc(s, x, i + 1)
         ELSE SubSeq(s, 1, i - 1) \o <<x>> \o SubSeq(s, i, Len(s))

RECURSIVE OrderByCreatedDesc(_, _)
\* ORDER BY created_at DESC of the first n rows of the table.
OrderByCreatedDesc(table, n) ==
    IF n = 0 THEN <<>>
    ELSE InsertDesc(OrderByCreatedDesc(table, n - 1), table[n], 1)

\* Mutant: the query has no ORDER BY.
GetAllUnordered(table) == [i \in 1..Len(table) |-> RowTask(table[i])]

\* What cache_get_all returns for a table.
GetAll(table) ==
    LET rows == OrderByCreatedDesc(table, Len(table))
    IN  [i \in 1..Len(rows) |-> RowTask(rows[i])]

cache_get_all == GetAll(tasks_cache)

\* History values of last_write.
Untouched == [kind |-> "none"]
Deleted   == [kind |-> "delete"]
Upserted(task, at) == [kind |-> "upsert", task |-> task, at |-> at]

SameCall(op, arg) == last_call.op = op /\ last_call.arg = arg

cache_replace_all(tasks_list) ==
    /\ tasks_cache' = ReplaceAllTable(tasks_cache, tasks_list)
    /\ last_call' = [op |-> "cache_replace_all", arg |-> tasks_list,
                     again |-> SameCall("cache_replace_all", tasks_list),
                     changed |-> tasks_cache' # tasks_cache]
    /\ last_write' = [id \in Ids |-> Untouched]
    /\ UNCHANGED <<queue_vars, now, view_vars, remote, sync>>
    /\ UNCHANGED app_vars

cache_upsert(task) ==
    /\ tasks_cache' = UpsertTable(tasks_cache, TaskRow(task, now, 0))
    /\ last_call' = [op |-> "cache_upsert", arg |-> task,
                     again |-> SameCall("cache_upsert", task),
                     changed |-> tasks_cache' # tasks_cache]
    /\ last_write' = [last_write EXCEPT ![task.id] = Upserted(task, now)]
    /\ UNCHANGED <<queue_vars, now, view_vars, remote, sync>>
    /\ UNCHANGED app_vars

cache_delete(task_id) ==
    /\ tasks_cache' = DeleteTable(tasks_cache, task_id)
    /\ last_call' = [op |-> "cache_delete", arg |-> task_id,
                     again |-> SameCall("cache_delete", task_id),
                     changed |-> tasks_cache' # tasks_cache]
    /\ last_write' = [last_write EXCEPT ![task_id] = Deleted]
    /\ UNCHANGED <<queue_vars, now, view_vars, remote, sync>>
    /\ UNCHANGED app_vars

\* Time passes between two calls.
Tick ==
    /\ now < MaxTime
    /\ now' = now + 1
    /\ UNCHANGED <<tasks_cache, queue_vars, last_call, last_write, remote, sync,
                   view_vars>>
    /\ UNCHANGED app_vars

-----------------------------------------------------------------------------
\* Mutation Queue: table pending_updates.

\* json.dumps of a task dict: a TEXT value that is a JSON document.
JsonDumps(task) == [json |-> task]

\* Whether json.loads accepts the text: a bare task id is not a JSON document.
IsJson(text) == DOMAIN text = {"json"}

\* json.loads of a JSON document.
JsonLoads(text) == text.json

\* The arguments add_pending_update is called with: an operation and a task
\* dict, or a task id for a delete.
QueueTask(id) ==
    [id |-> id, user_id |-> "U1", title |-> <<"b">>, status |-> "done",
     created_at |-> 1, updated_at |-> 1]

TaskCalls ==
    {[operation |-> "update", task |-> QueueTask("T1")],
     [operation |-> "update", task |-> QueueTask("T2")],
     [operation |-> "create", task |-> QueueTask("T2")]}

DeleteCalls == {"T1"}

\* The row add_pending_update inserts: AUTOINCREMENT id, the task id, and the
\* payload as TEXT (the JSON of the dict, or the id itself for a delete).
PendingRow(operation, task, rowid, timestamp) ==
    [id        |-> rowid,
     task_id   |-> IF operation = "delete" THEN task ELSE task.id,
     operation |-> operation,
     payload   |-> IF operation = "delete" THEN task ELSE JsonDumps(task),
     timestamp |-> timestamp]

\* The update dict pop_pending_updates builds from a row.
RowUpdate(row) ==
    [id        |-> row.id,
     task_id   |-> row.task_id,
     operation |-> row.operation,
     payload   |-> IF row.operation # "delete" THEN JsonLoads(row.payload)
                   ELSE row.payload,
     timestamp |-> row.timestamp]

RECURSIVE InsertAsc(_, _, _)
\* x put into s (sorted by timestamp ascending) behind every row whose
\* timestamp is not greater: rows with equal keys keep their rowid order.
InsertAsc(s, x, i) ==
    IF i > Len(s) THEN Append(s, x)
    ELSE IF s[i].timestamp <= x.timestamp THEN InsertAsc(s, x, i + 1)
         ELSE SubSeq(s, 1, i - 1) \o <<x>> \o SubSeq(s, i, Len(s))

RECURSIVE InsertAscTiesFirst(_, _, _)
\* Mutant helper: x goes before the rows with an equal timestamp.
InsertAscTiesFirst(s, x, i) ==
    IF i > Len(s) THEN Append(s, x)
    ELSE IF s[i].timestamp < x.timestamp THEN InsertAscTiesFirst(s, x, i + 1)
         ELSE SubSeq(s, 1, i - 1) \o <<x>> \o SubSeq(s, i, Len(s))

RECURSIVE OrderByTimestampLatestFirst(_, _)
\* Mutant: rows with equal timestamps come back newest rowid first.
OrderByTimestampLatestFirst(table, n) ==
    IF n = 0 THEN <<>>
    ELSE InsertAscTiesFirst(OrderByTimestampLatestFirst(table, n - 1), table[n], 1)

RECURSIVE OrderByTimestampAsc(_, _)
\* ORDER BY timestamp ASC of the first n rows of the table.
OrderByTimestampAsc(table, n) ==
    IF n = 0 THEN <<>>
    ELSE InsertAsc(OrderByTimestampAsc(table, n - 1), table[n], 1)

\* pop_pending_updates on a table: the list it returns and the table it
\* leaves.  A payload json.loads rejects raises: rollback, and [] is returned.
PopResult(table) ==
    LET rows == OrderByTimestampAsc(table, Len(table))
    IN  IF \E i \in 1..Len(rows) :
              rows[i].operation # "delete" /\ ~IsJson(rows[i].payload)
        THEN [updates |-> <<>>, table |-> table]
        ELSE [updates |-> [i \in 1..Len(rows) |-> RowUpdate(rows[i])],
              table   |-> <<>>]

\* SELECT COUNT(*) FROM pending_updates
PendingCount(table) == Len(table)

add_pending_update(operation, task) ==
    /\ seq < MaxSeq
    /\ pending_updates' =
           Append(pending_updates, PendingRow(operation, task, seq + 1, now))
    /\ seq' = seq + 1
    /\ enqueued' = Append(enqueued, [operation |-> operation, task |-> task])
    /\ last_call' = [op |-> "add_pending_update", arg |-> <<operation, task>>,
                     again |-> FALSE, changed |-> TRUE]
    /\ UNCHANGED <<tasks_cache, now, view_vars, last_write, remote, sync>>
    /\ UNCHANGED app_vars

pop_pending_updates ==
    /\ pending_updates' = PopResult(pending_updates).table
    /\ enqueued' = <<>>
    /\ last_call' = [op |-> "pop_pending_updates",
                     arg |-> PopResult(pending_updates).updates,
                     before |-> enqueued,
                     again |-> last_call.op = "pop_pending_updates",
                     changed |-> pending_updates' # pending_updates]
    /\ UNCHANGED <<tasks_cache, seq, now, view_vars, last_write, remote, sync>>
    /\ UNCHANGED app_vars

get_pending_count ==
    /\ last_call' = [op |-> "get_pending_count",
                     arg |-> PendingCount(pending_updates),
                     again |-> last_call.op = "get_pending_count",
                     changed |-> FALSE]
    /\ UNCHANGED <<tasks_cache, queue_vars, now, view_vars, last_write, remote, sync>>
    /\ UNCHANGED app_vars

-----------------------------------------------------------------------------
\* Remote Task Service: the Supabase table "tasks", as the sync engine uses it.

RemoteHasId(rows, id) == \E r \in rows : r.id = id

\* What execute() can do for the call of a queue entry: raise (network error,
\* constraint error), return an empty result (the write is rejected or matches
\* no row), or return rows ("ok").  An insert returns its row only when the id
\* is free, an update or soft delete only when a row has the id.
Answers(update, rows) ==
    {"raise", "empty"} \cup
    IF update.operation = "create"
    THEN (IF RemoteHasId(rows, update.task_id) THEN {} ELSE {"ok"})
    ELSE (IF RemoteHasId(rows, update.task_id) THEN {"ok"} ELSE {})

\* insert(payload): the new row, deleted defaulting to false.
RemoteInsert(rows, payload) ==
    rows \cup {[id |-> payload.id, user_id |-> payload.user_id,
                title |-> payload.title, status |-> payload.status,
                created_at |-> payload.created_at,
                updated_at |-> payload.updated_at, deleted |-> FALSE]}

\* update(payload).eq("id", task_id): the columns of the payload are set.
RemoteUpdate(rows, task_id, payload) ==
    {IF r.id = task_id
     THEN [id |-> payload.id, user_id |-> payload.user_id,
           title |-> payload.title, status |-> payload.status,
           created_at |-> payload.created_at,
           updated_at |-> payload.updated_at, deleted |-> r.deleted]
     ELSE r : r \in rows}

\* update({"deleted": True}).eq("id", task_id)
RemoteSoftDelete(rows, task_id) ==
    {IF r.id = task_id THEN [r EXCEPT !.deleted = TRUE] ELSE r : r \in rows}

\* select("*").eq("user_id", user_id).eq("deleted", False)
SelectedRows(rows, user_id) == {r \in rows : r.user_id = user_id /\ ~r.deleted}

\* .order("created_at", desc=True): every arrangement of the selected rows by
\* created_at descending (the service orders equal keys as it likes).
SelectResults(rows, user_id) ==
    LET sel == SelectedRows(rows, user_id)
    IN  {data \in [1..Cardinality(sel) -> sel] :
            /\ \A i, j \in 1..Cardinality(sel) : i # j => data[i] # data[j]
            /\ \A i, j \in 1..Cardinality(sel) :
                 i < j => data[i].created_at >= data[j].created_at}

-----------------------------------------------------------------------------
\* Sync Engine: sync_now = push_to_supabase, then pull_from_supabase.

Idle == [pc |-> "idle"]

\* Mutant: sync_now pulls and returns.
FirstPhasePull == "pull"

\* Step 1 of sync_now: push_to_supabase() is called first.
FirstPhase == "push"

\* The remote call push_to_supabase makes for a queue entry.
RemoteCall(update) ==
    IF update.operation = "create" THEN "insert"
    ELSE IF update.operation = "update" THEN "update"
         ELSE "soft_delete"

\* The locals of a sync_now(user_id) call at its entry, with the tables and
\* the remote rows it finds.
SyncStart(user_id, cache, queue, rows) ==
    [pc |-> FirstPhase, user_id |-> user_id, calls |-> <<>>,
     updates |-> <<>>, i |-> 1, success_count |-> 0,
     failed_updates |-> <<>>, answers |-> <<>>,
     push_success |-> FALSE, pull_success |-> FALSE,
     pull_answer |-> "none", fetched |-> <<>>,
     cache_before |-> cache,
     queue_before |-> queue,
     storage_failures |-> {},
     requeued_ids |-> {},
     deleting |-> {id \in Ids :
                     /\ \E k \in 1..Len(queue) :
                           /\ queue[k].operation = "delete"
                           /\ queue[k].task_id = id
                     /\ \E r \in rows : r.id = id /\ ~r.deleted}]

\* sync_tasks (the reload button): sync_now(user_id) is called.
SyncNow(user_id) ==
    /\ sync.pc = "idle"
    /\ ui.pc = "idle"
    /\ seq + Len(pending_updates) <= MaxSeq
    /\ sync' = SyncStart(user_id, tasks_cache, pending_updates, remote)
    /\ ui' = [pc |-> "idle",
              event |-> [handler |-> "sync_tasks", kind |-> "none", entries |-> <<>>,
                         remote_called |-> TRUE]]
    /\ UNCHANGED <<tasks_cache, queue_vars, now, view_vars, last_call, last_write, remote>>
    /\ UNCHANGED <<tables, all_tasks, workers>>

\* push_to_supabase, up to the loop: with nothing pending it returns True,
\* otherwise it drains the queue.
PushDrain ==
    /\ sync.pc = "push"
    /\ IF PendingCount(pending_updates) = 0
       THEN /\ sync' = [sync EXCEPT !.pc = "pull", !.push_success = TRUE]
            /\ UNCHANGED <<pending_updates, enqueued>>
       ELSE /\ sync' = [sync EXCEPT !.pc = "loop",
                                    !.calls = Append(@, "pop_pending_updates"),
                                    !.updates = PopResult(pending_updates).updates]
            /\ pending_updates' = PopResult(pending_updates).table
            /\ enqueued' = <<>>
    /\ UNCHANGED <<tasks_cache, seq, now, view_vars, last_call, last_write, remote>>
    /\ UNCHANGED app_vars

\* The remote table after the call of one queue entry that returned rows.
Applied(rows, update) ==
    IF update.operation = "create" THEN RemoteInsert(rows, update.payload)
    ELSE IF update.operation = "update"
         THEN RemoteUpdate(rows, update.task_id, update.payload)
         ELSE RemoteSoftDelete(rows, update.task_id)

\* Mutant: every entry of the batch is appended to failed_updates.
FailedAfterAlways(failed, update, answer) == Append(failed, update)

\* failed_updates after one entry: only the except branch appends to it.
FailedAfter(failed, update, answer) ==
    IF answer = "raise" THEN Append(failed, update) ELSE failed

\* One pass of the loop of push_to_supabase: the call for updates[i].
PushEntry(answer) ==
    /\ sync.pc = "loop"
    /\ sync.i <= Len(sync.updates)
    /\ answer \in Answers(sync.updates[sync.i], remote)
    /\ remote' = IF answer = "ok" THEN Applied(remote, sync.updates[sync.i])
                 ELSE remote
    /\ sync' = [sync EXCEPT
                  !.i = @ + 1,
                  !.calls = Append(@, RemoteCall(sync.updates[sync.i])),
                  !.success_count = IF answer = "ok" THEN @ + 1 ELSE @,
                  !.failed_updates = FailedAfter(@, sync.updates[sync.i], answer),
                  !.answers = Append(@, answer)]
    /\ UNCHANGED <<tasks_cache, queue_vars, now, view_vars, last_call, last_write>>
    /\ UNCHANGED app_vars

RECURSIVE RequeuedAtBack(_, _, _, _)
\* Mutant: a re-queued entry gets the time of the re-queue as its timestamp.
RequeuedAtBack(table, failed, k, rowid) ==
    IF k > Len(failed) THEN table
    ELSE RequeuedAtBack(
            Append(table,
                   [id        |-> rowid + 1,
                    task_id   |-> failed[k].task_id,
                    operation |-> failed[k].operation,
                    payload   |-> IF failed[k].operation # "delete"
                                  THEN JsonDumps(failed[k].payload)
                                  ELSE failed[k].payload,
                    timestamp |-> now]),
            failed, k + 1, rowid + 1)

RECURSIVE Requeued(_, _, _, _)
\* The table after the INSERTs that re-queue failed[k..]: new rowids, the
\* payload as TEXT again, the timestamp of the original entry.
Requeued(table, failed, k, rowid) ==
    IF k > Len(failed) THEN table
    ELSE Requeued(
            Append(table,
                   [id        |-> rowid + 1,
                    task_id   |-> failed[k].task_id,
                    operation |-> failed[k].operation,
                    payload   |-> IF failed[k].operation # "delete"
                                  THEN JsonDumps(failed[k].payload)
                                  ELSE failed[k].payload,
                    timestamp |-> failed[k].timestamp]),
            failed, k + 1, rowid + 1)

\* Mutant: the push succeeds only when every entry succeeded.
PushReturnAllOrNothing(success_count, updates) == success_count = Len(updates)

\* return success_count > 0 or len(updates) == 0
PushReturn(success_count, updates) == success_count > 0 \/ Len(updates) = 0

\* The end of push_to_supabase: failed entries are re-queued, the result is
\* computed.
PushFinish ==
    /\ sync.pc = "loop"
    /\ sync.i > Len(sync.updates)
    /\ pending_updates' = Requeued(pending_updates, sync.failed_updates, 1, seq)
    /\ seq' = seq + Len(sync.failed_updates)
    /\ sync' = [sync EXCEPT
                  !.pc = "pull",
                  !.requeued_ids = (seq + 1)..(seq + Len(sync.failed_updates)),
                  !.push_success = PushReturn(sync.success_count, sync.updates)]
    /\ UNCHANGED <<tasks_cache, enqueued, now, view_vars, last_call, last_write, remote>>
    /\ UNCHANGED app_vars

\* The cache after a select that returned data: cache_replace_all is called
\* only when response.data is not empty.
PulledTable(table, data) ==
    IF data # <<>> THEN ReplaceAllTable(table, data) ELSE table

\* pull_from_supabase(user_id): the select raises, or returns the owner's
\* rows that are not deleted.
PullFromSupabase ==
    /\ sync.pc = "pull"
    /\ \/ /\ sync' = [sync EXCEPT !.pc = "return", !.pull_answer = "raise",
                                  !.calls = Append(@, "select"),
                                  !.pull_success = FALSE]
          /\ UNCHANGED tasks_cache
       \/ \E data \in SelectResults(remote, sync.user_id) :
            /\ tasks_cache' = PulledTable(tasks_cache, data)
            /\ sync' = [sync EXCEPT !.pc = "return", !.pull_answer = "ok",
                                    !.calls = IF data # <<>>
                                              THEN @ \o <<"select", "cache_replace_all">>
                                              ELSE Append(@, "select"),
                                    !.fetched = data, !.pull_success = TRUE]
    /\ UNCHANGED <<queue_vars, now, view_vars, last_call, last_write, remote>>
    /\ UNCHANGED app_vars

\* Mutant: the result of the push decides alone.
SyncResultPushOnly(push_success, pull_success) == push_success

\* if push_success and pull_success: return True, else return False
SyncResult(push_success, pull_success) == push_success /\ pull_success

\* sync_now returns.
SyncReturn ==
    /\ sync.pc = "return"
    /\ sync' = [sync EXCEPT !.pc = "done"] @@
               [result |-> SyncResult(sync.push_success, sync.pull_success)]
    /\ UNCHANGED <<tasks_cache, queue_vars, now, view_vars, last_call, last_write, remote>>
    /\ UNCHANGED app_vars

\* sync_tasks goes on: after a successful sync it reloads all_tasks from the
\* cache.
SyncDone ==
    /\ sync.pc = "done"
    /\ ui.pc = "idle"
    /\ sync' = Idle
    /\ all_tasks' = IF sync.result THEN cache_get_all ELSE all_tasks
    /\ UNCHANGED <<tasks_cache, queue_vars, now, view_vars, last_call, last_write, remote>>
    /\ UNCHANGED <<tables, ui, workers>>

-----------------------------------------------------------------------------
\* The forms of AddTaskScreen and EditTaskScreen.  A text is the sequence of
\* its characters.

Digits == <<"0", "1", "2", "3", "4", "5", "6", "7", "8", "9">>

IsDigit(c) == \E d \in 1..10 : Digits[d] = c

DigitValue(c) == (CHOOSE d \in 1..10 : Digits[d] = c) - 1

RECURSIVE StripLeft(_)
StripLeft(text) ==
    IF text # <<>> /\ Head(text) = " " THEN StripLeft(Tail(text)) ELSE text

RECURSIVE StripRight(_)
StripRight(text) ==
    IF text # <<>> /\ text[Len(text)] = " "
    THEN StripRight(SubSeq(text, 1, Len(text) - 1))
    ELSE text

\* str.strip(): blanks at both ends are removed.
Strip(text) == StripRight(StripLeft(text))

\* str.lower() of one character, for the letters the form inputs use.
LowerChar(c) ==
    CASE c = "H" -> "h"
      [] c = "I" -> "i"
      [] c = "G" -> "g"
      [] c = "L" -> "l"
      [] c = "O" -> "o"
      [] c = "W" -> "w"
      [] OTHER   -> c

\* str.lower()
Lower(text) == [k \in 1..Len(text) |-> LowerChar(text[k])]

RECURSIVE Split(_, _)
\* The fields of the text between the occurrences of the separator.
Split(text, sep) ==
    IF \A k \in 1..Len(text) : text[k] # sep THEN <<text>>
    ELSE LET k == CHOOSE k \in 1..Len(text) :
                     text[k] = sep /\ \A j \in 1..(k - 1) : text[j] # sep
         IN  <<SubSeq(text, 1, k - 1)>> \o Split(SubSeq(text, k + 1, Len(text)), sep)

\* A field of lo to hi digits.
IsNumber(field, lo, hi) ==
    /\ Len(field) \in lo..hi
    /\ \A k \in 1..Len(field) : IsDigit(field[k])

RECURSIVE NumberValue(_)
NumberValue(field) ==
    IF field = <<>> THEN 0
    ELSE 10 * NumberValue(SubSeq(field, 1, Len(field) - 1))
         + DigitValue(field[Len(field)])

\* The days of a month, as datetime checks them.
DaysInMonth(year, month) ==
    IF month = 2
    THEN (IF year % 4 = 0 /\ (year % 100 # 0 \/ year % 400 = 0) THEN 29 ELSE 28)
    ELSE IF month \in {4, 6, 9, 11} THEN 30 ELSE 31

\* datetime.strptime(text, "%Y-%m-%d") does not raise ValueError: a year of
\* four digits, a month and a day of one or two digits, and a day the month
\* has.
ParsesAsDate(text) ==
    LET f == Split(text, "-")
    IN  /\ Len(f) = 3
        /\ IsNumber(f[1], 4, 4)
        /\ IsNumber(f[2], 1, 2)
        /\ IsNumber(f[3], 1, 2)
        /\ NumberValue(f[1]) >= 1
        /\ NumberValue(f[2]) \in 1..12
        /\ NumberValue(f[3]) \in 1..DaysInMonth(NumberValue(f[1]), NumberValue(f[2]))

\* The "%H:%M" part: hours 0..23 and minutes 0..59, of one or two digits.
ParsesAsTime(text) ==
    LET f == Split(text, ":")
    IN  /\ Len(f) = 2
        /\ IsNumber(f[1], 1, 2)
        /\ IsNumber(f[2], 1, 2)
        /\ NumberValue(f[1]) \in 0..23
        /\ NumberValue(f[2]) \in 0..59

NonEmpty(field) == field # <<>>

\* datetime.strptime(text, "%Y-%m-%d %H:%M") does not raise ValueError: the
\* blank of the format stands for one or more blanks.
ParsesAsDateTime(text) ==
    LET f == SelectSeq(Split(text, " "), NonEmpty)
    IN  /\ Len(f) = 2
        /\ ParsesAsDate(f[1])
        /\ ParsesAsTime(f[2])

Priorities ==
    {<<"l", "o", "w">>, <<"m", "e", "d", "i", "u", "m">>, <<"h", "i", "g", "h">>}

\* The fields save_task and save_changes read: each text stripped, the
\* priority lower-cased as well.
FormFields(input) ==
    [title    |-> Strip(input.title),
     priority |-> Lower(Strip(input.priority)),
     deadline |-> Strip(input.deadline)]

\* Mutant: a deadline that does not parse is let through.
FormErrorNoDeadlineCheck(input) ==
    LET f == FormFields(input)
    IN  IF f.title = <<>> THEN "title"
        ELSE IF f.priority # <<>> /\ f.priority \notin Priorities THEN "priority"
        ELSE "none"

\* The validation of save_task and save_changes: the error that makes the
\* handler return, or "none".
FormError(input) ==
    LET f == FormFields(input)
    IN  IF f.title = <<>> THEN "title"
        ELSE IF f.priority # <<>> /\ f.priority \notin Priorities THEN "priority"
        ELSE IF /\ f.deadline # <<>>
                /\ ~ParsesAsDateTime(f.deadline)
                /\ ~ParsesAsDate(f.deadline)
             THEN "deadline"
        ELSE "none"

-----------------------------------------------------------------------------
\* The screens.  User U1 is logged in (app.current_user).  Their handlers run
\* on the Kivy main thread, one after the other; a handler that ends in
\* load_tasks with an empty cache runs sync_now before it returns.

CurrentUser == "U1"

\* The rows a handler appended to the queue.
Appended(before, after) == SubSeq(after, Len(before) + 1, Len(after))

\* load_tasks at the end of a handler: all_tasks is read from the cache, and
\* with an empty cache sync_now is called.
LoadTasksThen(event) ==
    /\ tables' = tables \cup AllTables
    /\ all_tasks' = GetAll(tasks_cache')
    /\ IF GetAll(tasks_cache') = <<>>
       THEN /\ seq' + Len(pending_updates') <= MaxSeq
            /\ sync' = SyncStart(CurrentUser, tasks_cache', pending_updates', remote')
            /\ ui' = [pc |-> "load_tasks", event |-> event]
       ELSE /\ sync' = sync
            /\ ui' = [pc |-> "idle", event |-> event]

HandlerIdle == ui.pc = "idle" /\ sync.pc = "idle"

\* TasksScreen.load_tasks (on_pre_enter, F5).
LoadTasks ==
    /\ HandlerIdle
    /\ UNCHANGED <<tasks_cache, queue_vars, now, view_vars, last_call, last_write, remote, workers>>
    /\ LoadTasksThen([handler |-> "load_tasks", kind |-> "none", entries |-> <<>>,
                      remote_called |-> FALSE])

\* load_tasks goes on after its sync_now: a successful sync reloads
\* all_tasks.
LoadTasksResume ==
    /\ sync.pc = "done"
    /\ ui.pc = "load_tasks"
    /\ sync' = Idle
    /\ all_tasks' = IF sync.result THEN cache_get_all ELSE all_tasks
    /\ ui' = [pc |-> "idle", event |-> [synced |-> sync.result] @@ ui.event]
    /\ UNCHANGED <<tasks_cache, queue_vars, now, view_vars, last_call, last_write, remote,
                   tables, workers>>

\* Mutant: the status is set to "done" whatever it was.
ToggledTaskAlwaysDone(task, at) ==
    [task EXCEPT !.status = "done", !.updated_at = at]

\* updated_task of toggle_done: a copy with the other status and a new
\* updated_at.
ToggledTask(task, at) ==
    [task EXCEPT !.status = IF @ # "done" THEN "done" ELSE "new",
                 !.updated_at = at]

\* TasksScreen.toggle_done(task), for a task of the list.
ToggleDone(task) ==
    /\ HandlerIdle
    /\ seq < MaxAdds
    /\ \E k \in 1..Len(all_tasks) : all_tasks[k] = task
    /\ tasks_cache' = UpsertTable(tasks_cache, TaskRow(ToggledTask(task, now), now, 0))
    /\ pending_updates' =
           Append(pending_updates,
                  PendingRow("update", ToggledTask(task, now), seq + 1, now))
    /\ seq' = seq + 1
    /\ enqueued' = Append(enqueued, [operation |-> "update",
                                     task |-> ToggledTask(task, now)])
    /\ remote' = remote
    /\ LoadTasksThen([handler |-> "toggle_done", kind |-> "update",
                      task_id |-> task.id, task |-> task, all_before |-> all_tasks,
                      at |-> now, cache_before |-> cache_get_all,
                      entries |-> Appended(pending_updates, pending_updates'),
                      remote_called |-> FALSE])
    /\ UNCHANGED <<now, view_vars, last_call, last_write, workers>>

\* TasksScreen.delete_task(task), for a task of the list.
DeleteTask(task) ==
    /\ HandlerIdle
    /\ seq < MaxAdds
    /\ \E k \in 1..Len(all_tasks) : all_tasks[k] = task
    /\ tasks_cache' = DeleteTable(tasks_cache, task.id)
    /\ pending_updates' =
           Append(pending_updates, PendingRow("delete", task.id, seq + 1, now))
    /\ seq' = seq + 1
    /\ enqueued' = Append(enqueued, [operation |-> "delete", task |-> task.id])
    /\ remote' = remote
    /\ LoadTasksThen([handler |-> "delete_task", kind |-> "delete",
                      task_id |-> task.id,
                      entries |-> Appended(pending_updates, pending_updates'),
                      remote_called |-> FALSE])
    /\ UNCHANGED <<now, view_vars, last_call, last_write, workers>>

\* The ids the service can give a new row: ids no row, cached task or queue
\* entry carries.
FreeIds ==
    {id \in Ids :
        /\ ~RemoteHasId(remote, id)
        /\ ~HasId(tasks_cache, id)
        /\ ~HasId(all_tasks, id)
        /\ \A k \in 1..Len(pending_updates) : pending_updates[k].task_id # id}

\* The row the service stores for the insert of save_task: the service gives
\* it its id and its created_at.
CreatedRow(id, fields, at) ==
    [id |-> id, user_id |-> CurrentUser, title |-> fields.title, status |-> "new",
     created_at |-> at, updated_at |-> at, deleted |-> FALSE]

\* AddTaskScreen.save_task with the texts of the form: a validation error
\* returns at once; otherwise the task is inserted into the remote table, and
\* unless that raises the app goes back to the tasks screen (go_to_tasks,
\* which calls load_tasks).
SaveTask(input, answer) ==
    /\ HandlerIdle
    /\ IF FormError(input) # "none"
       THEN /\ answer = "none"
            /\ ui' = [pc |-> "idle",
                      event |-> [handler |-> "save_task", kind |-> "rejected",
                                 input |-> input, entries |-> <<>>,
                                 remote_called |-> FALSE]]
            /\ UNCHANGED <<tasks_cache, queue_vars, remote, sync, tables, all_tasks>>
       ELSE IF answer = "raise"
       THEN /\ ui' = [pc |-> "idle",
                      event |-> [handler |-> "save_task", kind |-> "failed",
                                 input |-> input, entries |-> <<>>,
                                 remote_called |-> TRUE]]
            /\ UNCHANGED <<tasks_cache, queue_vars, remote, sync, tables, all_tasks>>
       ELSE /\ answer = "ok"
            /\ FreeIds # {}
            /\ LET id == CHOOSE id \in FreeIds : TRUE IN
                  /\ remote' = remote \cup {CreatedRow(id, FormFields(input), now)}
                  /\ UNCHANGED <<tasks_cache, queue_vars>>
                  /\ LoadTasksThen([handler |-> "save_task", kind |-> "create",
                                    task_id |-> id, input |-> input,
                                    entries |-> Appended(pending_updates,
                                                         pending_updates'),
                                    remote_called |-> TRUE])
    /\ UNCHANGED <<now, view_vars, last_call, last_write, workers>>

\* update({...}).eq("id", task_id) of save_changes: the title and updated_at
\* of the row with this id.
RemoteEdit(rows, task_id, fields, at) ==
    {IF r.id = task_id THEN [r EXCEPT !.title = fields.title, !.updated_at = at]
     ELSE r : r \in rows}

\* EditTaskScreen.save_changes for a task of the list, with the texts of the
\* form.
SaveChanges(task, input, answer) ==
    /\ HandlerIdle
    /\ \E k \in 1..Len(all_tasks) : all_tasks[k] = task
    /\ IF FormError(input) # "none"
       THEN /\ answer = "none"
            /\ ui' = [pc |-> "idle",
                      event |-> [handler |-> "save_changes", kind |-> "rejected",
                                 input |-> input, entries |-> <<>>,
                                 remote_called |-> FALSE]]
            /\ UNCHANGED <<tasks_cache, queue_vars, remote, sync, tables, all_tasks>>
       ELSE IF answer = "raise"
       THEN /\ ui' = [pc |-> "idle",
                      event |-> [handler |-> "save_changes", kind |-> "failed",
                                 input |-> input, entries |-> <<>>,
                                 remote_called |-> TRUE]]
            /\ UNCHANGED <<tasks_cache, queue_vars, remote, sync, tables, all_tasks>>
       ELSE /\ answer = "ok"
            /\ remote' = RemoteEdit(remote, task.id, FormFields(input), now)
            /\ UNCHANGED <<tasks_cache, queue_vars>>
            /\ LoadTasksThen([handler |-> "save_changes", kind |-> "update",
                              task_id |-> task.id, input |-> input,
                              entries |-> Appended(pending_updates, pending_updates'),
                              remote_called |-> TRUE])
    /\ UNCHANGED <<now, view_vars, last_call, last_write, workers>>

\* delete().eq("id", task_id): the row is removed from the table.
RemoteHardDelete(rows, task_id) == {r \in rows : r.id # task_id}

\* TaskDetailsScreen.delete_task for the task the screen shows.
DetailsDeleteTask(task) ==
    /\ HandlerIdle
    /\ \E k \in 1..Len(all_tasks) : all_tasks[k] = task
    /\ remote' = RemoteHardDelete(remote, task.id)
    /\ ui' = [pc |-> "idle",
              event |-> [handler |-> "details_delete_task", kind |-> "delete",
                         task_id |-> task.id, entries |-> <<>>,
                         remote_called |-> TRUE]]
    /\ UNCHANGED <<tasks_cache, queue_vars, now, view_vars, last_call, last_write, sync,
                   tables, all_tasks, workers>>

-----------------------------------------------------------------------------
\* Cancellation.  The remote calls block; a call that times out raises an
\* Exception and is the "raise" answer above.  A cancelled call (the thread is
\* interrupted with KeyboardInterrupt or SystemExit, which `except Exception`
\* does not catch, or the process is ended) leaves push_to_supabase at once:
\* the drained batch lives in the list `updates` only.
CancelPush ==
    /\ sync.pc = "loop"
    /\ sync.i <= Len(sync.updates)
    /\ sync' = [sync EXCEPT !.pc = "cancelled"]
    /\ UNCHANGED <<tasks_cache, queue_vars, now, view_vars, last_call, last_write, remote>>
    /\ UNCHANGED app_vars

\* The app is started again.
Restart ==
    /\ sync.pc = "cancelled"
    /\ sync' = Idle
    /\ UNCHANGED <<tasks_cache, queue_vars, now, view_vars, last_call, last_write, remote>>
    /\ UNCHANGED app_vars

-----------------------------------------------------------------------------
\* Local storage failures inside sync_now (the file cannot be opened, a
\* statement or the commit raises sqlite3.Error).

\* get_pending_count fails.  Its query raises inside its try: it returns 0 and
\* the push returns True.  Or sqlite3.connect raises before the try: the
\* except of push_to_supabase returns False.
PushCountFails(in_try) ==
    /\ sync.pc = "push"
    /\ sync' = [sync EXCEPT !.pc = "pull", !.push_success = in_try,
                            !.storage_failures = @ \cup {"count"}]
    /\ UNCHANGED <<tasks_cache, queue_vars, now, view_vars, last_call, last_write, remote>>
    /\ UNCHANGED app_vars

\* pop_pending_updates fails.  Inside its try (the SELECT, the DELETE or the
\* commit raises): rollback, it returns [] and the push, with nothing to do,
\* returns True.  Or sqlite3.connect raises: the push returns False.
PushDrainFails(in_try) ==
    /\ sync.pc = "push"
    /\ PendingCount(pending_updates) > 0
    /\ sync' = [sync EXCEPT !.pc = "pull", !.push_success = in_try,
                            !.storage_failures = @ \cup {"drain"}]
    /\ UNCHANGED <<tasks_cache, queue_vars, now, view_vars, last_call, last_write, remote>>
    /\ UNCHANGED app_vars

\* Mutant: the INSERTs made before the failure are committed.
RequeueFailedKeepsPrefix(table, failed, k, rowid) ==
    Requeued(table, SubSeq(failed, 1, k - 1), 1, rowid)

\* The table when the re-queue raises at its k-th INSERT (or at the commit,
\* k = Len(failed) + 1): the connection is dropped without a commit, which
\* rolls its INSERTs back.
RequeueFailed(table, failed, k, rowid) == table

\* The re-queue of push_to_supabase fails: its except returns False.
PushRequeueFails(k) ==
    /\ sync.pc = "loop"
    /\ sync.i > Len(sync.updates)
    /\ sync.failed_updates # <<>>
    /\ k \in 1..(Len(sync.failed_updates) + 1)
    /\ pending_updates' = RequeueFailed(pending_updates, sync.failed_updates, k, seq)
    /\ sync' = [sync EXCEPT !.pc = "pull", !.push_success = FALSE,
                            !.storage_failures = @ \cup {"requeue"}]
    /\ UNCHANGED <<tasks_cache, seq, enqueued, now, view_vars, last_call, last_write, remote>>
    /\ UNCHANGED app_vars

\* tasks_cache when cache_replace_all raises at its k-th INSERT (or at the
\* commit, k = Len(tasks_list) + 1): rollback.
ReplaceAllFailed(table, tasks_list, k) == table

\* The select of the pull returns rows and cache_replace_all fails.  Inside
\* its try: rollback, the error is printed and the pull returns True.  Or
\* sqlite3.connect raises: the except of pull_from_supabase returns False.
PullReplaceFails(k, in_try) ==
    /\ sync.pc = "pull"
    /\ \E data \in SelectResults(remote, sync.user_id) :
            /\ data # <<>>
            /\ k \in 1..(Len(data) + 1)
            /\ tasks_cache' = ReplaceAllFailed(tasks_cache, data, k)
            /\ sync' = [sync EXCEPT !.pc = "return", !.pull_answer = "ok",
                                    !.fetched = data, !.pull_success = in_try,
                                    !.storage_failures = @ \cup {"replace"}]
    /\ UNCHANGED <<queue_vars, now, view_vars, last_call, last_write, remote>>
    /\ UNCHANGED app_vars

-----------------------------------------------------------------------------
\* sync_now called from threads of their own.  Every function of offline.py
\* opens its own connection; a SELECT holds no lock once its rows are fetched,
\* so the statements of two callers interleave between any two of them.

\* sync_now(user_id) is called on thread w.
WorkerStart(w, user_id) ==
    /\ workers[w].pc = "idle"
    /\ seq + Len(pending_updates) <= MaxSeq
    /\ workers' = [workers EXCEPT ![w] =
                     [pc |-> "count", user_id |-> user_id, rows |-> <<>>,
                      updates |-> <<>>, i |-> 1, success_count |-> 0,
                      failed_updates |-> <<>>, applied |-> {}, dropped |-> <<>>,
                      push_success |-> FALSE, pull_success |-> FALSE]]
    /\ UNCHANGED <<tasks_cache, queue_vars, now, view_vars, last_call, last_write, remote, sync,
                   tables, all_tasks, ui>>

\* get_pending_count() of push_to_supabase: with nothing pending the push
\* returns True.
WorkerCount(w) ==
    /\ workers[w].pc = "count"
    /\ workers' = [workers EXCEPT ![w] =
                     IF PendingCount(pending_updates) = 0
                     THEN [@ EXCEPT !.pc = "pull", !.push_success = TRUE]
                     ELSE [@ EXCEPT !.pc = "select"]]
    /\ UNCHANGED <<tasks_cache, queue_vars, now, view_vars, last_call, last_write, remote, sync,
                   tables, all_tasks, ui>>

\* pop_pending_updates, its SELECT: the rows are fetched and turned into the
\* list of updates.  With no row there is nothing to clear.
WorkerSelect(w) ==
    /\ workers[w].pc = "select"
    /\ LET rows == OrderByTimestampAsc(pending_updates, Len(pending_updates))
       IN  workers' = [workers EXCEPT ![w] =
                         [@ EXCEPT !.pc = IF rows = <<>> THEN "loop" ELSE "clear",
                                   !.rows = rows,
                                   !.updates = [k \in 1..Len(rows) |-> RowUpdate(rows[k])]]]
    /\ UNCHANGED <<tasks_cache, queue_vars, now, view_vars, last_call, last_write, remote, sync,
                   tables, all_tasks, ui>>

RECURSIVE RowsNotRead(_, _, _)
\* The rows of the table (from index k on) that are not among the rows read.
RowsNotRead(table, rows, k) ==
    IF k > Len(table) THEN <<>>
    ELSE IF \E j \in 1..Len(rows) : rows[j].id = table[k].id
         THEN RowsNotRead(table, rows, k + 1)
         ELSE <<table[k]>> \o RowsNotRead(table, rows, k + 1)

\* pop_pending_updates, its DELETE FROM pending_updates and commit: every row
\* of the table goes, whether the SELECT has read it or not.
WorkerClear(w) ==
    /\ workers[w].pc = "clear"
    /\ pending_updates' = <<>>
    /\ workers' = [workers EXCEPT ![w] =
                     [@ EXCEPT !.pc = "loop",
                               !.dropped = RowsNotRead(pending_updates, workers[w].rows, 1)]]
    /\ UNCHANGED <<tasks_cache, seq, enqueued, now, view_vars, last_call, last_write, remote,
                   sync, tables, all_tasks, ui>>

\* One pass of the loop of push_to_supabase on thread w.
WorkerEntry(w, answer) ==
    /\ workers[w].pc = "loop"
    /\ workers[w].i <= Len(workers[w].updates)
    /\ LET update == workers[w].updates[workers[w].i]
       IN  /\ answer \in Answers(update, remote)
           /\ remote' = IF answer = "ok" THEN Applied(remote, update) ELSE remote
           /\ workers' = [workers EXCEPT ![w] =
                 [@ EXCEPT !.i = @ + 1,
                           !.success_count = IF answer = "ok" THEN @ + 1 ELSE @,
                           !.applied = IF answer = "ok" THEN @ \cup {update.id} ELSE @,
                           !.failed_updates = FailedAfter(@, update, answer)]]
    /\ UNCHANGED <<tasks_cache, queue_vars, now, view_vars, last_call, last_write, sync,
                   tables, all_tasks, ui>>

\* The end of push_to_supabase on thread w.
WorkerFinish(w) ==
    /\ workers[w].pc = "loop"
    /\ workers[w].i > Len(workers[w].updates)
    /\ pending_updates' =
           Requeued(pending_updates, workers[w].failed_updates, 1, seq)
    /\ seq' = seq + Len(workers[w].failed_updates)
    /\ workers' = [workers EXCEPT ![w] =
                     [@ EXCEPT !.pc = "pull",
                               !.push_success =
                                   PushReturn(workers[w].success_count,
                                              workers[w].updates)]]
    /\ UNCHANGED <<tasks_cache, enqueued, now, view_vars, last_call, last_write, remote, sync,
                   tables, all_tasks, ui>>

\* pull_from_supabase on thread w, and the return of sync_now.
WorkerPull(w) ==
    /\ workers[w].pc = "pull"
    /\ \/ /\ workers' = [workers EXCEPT ![w] = Idle]
          /\ UNCHANGED tasks_cache
       \/ \E data \in SelectResults(remote, workers[w].user_id) :
            /\ tasks_cache' = PulledTable(tasks_cache, data)
            /\ workers' = [workers EXCEPT ![w] = Idle]
    /\ UNCHANGED <<queue_vars, now, view_vars, last_call, last_write, remote, sync,
                   tables, all_tasks, ui>>

-----------------------------------------------------------------------------
\* The rows the service may hold at the start: T1 of owner U1, T2 of owner U1
\* or of owner U2.
RemoteInits ==
    {rows \in SUBSET
        {[id |-> "T1", user_id |-> "U1", title |-> <<"a">>, status |-> "new",
          created_at |-> 1, updated_at |-> 1, deleted |-> FALSE],
         [id |-> "T2", user_id |-> "U1", title |-> <<"a">>, status |-> "new",
          created_at |-> 2, updated_at |-> 1, deleted |-> FALSE],
         [id |-> "T2", user_id |-> "U2", title |-> <<"a">>, status |-> "new",
          created_at |-> 2, updated_at |-> 1, deleted |-> FALSE]} :
        \A r1, r2 \in rows : r1.id = r2.id => r1 = r2}

\* The state after init_db() on a fresh file: both tables exist and are empty.
Init ==
    /\ tasks_cache = <<>>
    /\ pending_updates = <<>>
    /\ seq = 0
    /\ now = 1
    /\ last_call = [op |-> "init", arg |-> <<>>, again |-> FALSE, changed |-> FALSE]
    /\ last_write = [id \in Ids |-> Untouched]
    /\ enqueued = <<>>
    /\ remote \in RemoteInits
    /\ sync = Idle
    /\ tables = AllTables
    /\ all_tasks = <<>>
    /\ ui = UiIdle
    /\ workers = [w \in Workers |-> Idle]
    /\ config_json = NoFile
    /\ current_filter = "all"
    /\ grouped = NotGrouped

\* Mutant: the table is dropped and created again.
CreateTableFresh(exists, table) == <<>>

\* CREATE TABLE IF NOT EXISTS: the rows of a table that exists stay, a new
\* table has none.
CreateTableIfNotExists(exists, table) == IF exists THEN table ELSE <<>>

\* init_db(): both tables exist afterwards.
init_db ==
    /\ tasks_cache' = CreateTableIfNotExists("tasks_cache" \in tables, tasks_cache)
    /\ pending_updates' =
           CreateTableIfNotExists("pending_updates" \in tables, pending_updates)
    /\ tables' = tables \cup AllTables
    /\ last_call' = [op |-> "init_db", arg |-> <<tasks_cache, pending_updates>>,
                     again |-> last_call.op = "init_db", changed |-> tables' # tables]
    /\ UNCHANGED <<seq, enqueued, now, view_vars, last_write, remote, sync, all_tasks, ui, workers>>

\* A database file that does not exist yet: no table, no row.
InitFresh ==
    /\ tasks_cache = <<>>
    /\ pending_updates = <<>>
    /\ seq = 0
    /\ now = 1
    /\ last_call = [op |-> "none", arg |-> <<>>, again |-> FALSE, changed |-> FALSE]
    /\ last_write = [id \in Ids |-> Untouched]
    /\ enqueued = <<>>
    /\ remote = {}
    /\ sync = Idle
    /\ tables = {}
    /\ all_tasks = <<>>
    /\ ui = UiIdle
    /\ workers = [w \in Workers |-> Idle]
    /\ config_json = NoFile
    /\ current_filter = "all"
    /\ grouped = NotGrouped

\* init_db between the calls of the Local Store and of the queue.  A call on
\* a table that does not exist raises inside the function, which prints the
\* error and changes nothing.
NextDb ==
    \/ init_db
    \/ "tasks_cache" \in tables /\ \E id \in Ids : cache_upsert(QueueTask(id))
    \/ "tasks_cache" \in tables /\ \E id \in Ids : cache_delete(id)
    \/ "pending_updates" \in tables /\
           \E task_id \in DeleteCalls : add_pending_update("delete", task_id)
    \/ "pending_updates" \in tables /\ pop_pending_updates

SpecDb == InitFresh /\ [][NextDb]_vars

\* All lists of at most n elements of S.
ListsOf(S, n) == UNION {[1..k -> S] : k \in 0..n}

\* Inputs of the Local Store calls: one owner's task dicts, and the lists of
\* server rows (which always carry created_at and updated_at).
StoreTasks  ==
    {t \in TaskDicts :
        t.user_id = "U1" /\ t.status = "new" /\ t.updated_at \in {1, Absent}}
ServerTasks == {t \in StoreTasks : t.updated_at = 1 /\ t.title = <<"b">>}

\* Any client of the Local Store API.
NextStore ==
    \/ \E tasks_list \in ListsOf(ServerTasks, MaxBatch) : cache_replace_all(tasks_list)
    \/ \E task \in StoreTasks : cache_upsert(task)
    \/ \E task_id \in Ids : cache_delete(task_id)
    \/ Tick

SpecStore == Init /\ [][NextStore]_vars

\* Any client of the Mutation Queue API.
NextQueue ==
    \/ \E c \in TaskCalls : add_pending_update(c.operation, c.task)
    \/ \E task_id \in DeleteCalls : add_pending_update("delete", task_id)
    \/ pop_pending_updates
    \/ get_pending_count
    \/ Tick

SpecQueue == Init /\ [][NextQueue]_vars

\* sync_now on two threads, with the UI thread queueing mutations meanwhile.
NextOverlap ==
    \/ Len(enqueued) < MaxAdds /\
           \E task_id \in DeleteCalls : add_pending_update("delete", task_id)
    \/ \E w \in Workers : WorkerStart(w, "U1")
    \/ \E w \in Workers : WorkerCount(w)
    \/ \E w \in Workers : WorkerSelect(w)
    \/ \E w \in Workers : WorkerClear(w)
    \/ \E w \in Workers : \E answer \in {"ok", "empty", "raise"} : WorkerEntry(w, answer)
    \/ \E w \in Workers : WorkerFinish(w)
    \/ \E w \in Workers : WorkerPull(w)

SpecOverlap == Init /\ [][NextOverlap]_vars

\* The program: local writes and queued mutations while no sync runs, and the
\* steps of sync_now.
Next ==
    \/ sync.pc = "idle" /\ \E c \in TaskCalls : add_pending_update(c.operation, c.task)
    \/ sync.pc = "idle" /\ \E task_id \in DeleteCalls : add_pending_update("delete", task_id)
    \/ sync.pc = "idle" /\ Tick
    \/ SyncNow("U1")
    \/ PushDrain
    \/ \E answer \in {"ok", "empty", "raise"} : PushEntry(answer)
    \/ PushFinish
    \/ PullFromSupabase
    \/ SyncReturn
    \/ SyncDone

Spec == Init /\ [][Next]_vars

\* sync_now on the main thread while another thread queues mutations and time
\* passes.
NextRequeue ==
    \/ Len(enqueued) < MaxAdds /\
           add_pending_update("update", QueueTask("T1"))
    \/ Len(enqueued) < MaxAdds /\
           \E task_id \in DeleteCalls : add_pending_update("delete", task_id)
    \/ Tick
    \/ SyncNow("U1")
    \/ PushDrain
    \/ \E answer \in {"ok", "empty", "raise"} : PushEntry(answer)
    \/ PushFinish
    \/ PullFromSupabase
    \/ SyncReturn
    \/ SyncDone

\* The server holds T1 of U1.
InitRequeue ==
    /\ Init
    /\ \E r \in remote : r.id = "T1" /\ r.user_id = "U1"
    /\ Cardinality(remote) = 1

SpecRequeue == InitRequeue /\ [][NextRequeue]_vars

\* The counters leave room for one more failed call and its retry.
CanRetry ==
    /\ sync.pc = "loop"
    /\ seq + 2 * (Len(sync.failed_updates) + 1) <= MaxSeq

\* Repeated sync_now calls against a service that fails a bounded number of
\* times; mutations of T1 are queued between the calls.
NextRetry ==
    \/ /\ sync.pc = "idle"
       /\ seq + Len(pending_updates) + 2 <= MaxSeq
       /\ add_pending_update("update", QueueTask("T1"))
    \/ /\ sync.pc = "idle"
       /\ seq + Len(pending_updates) + 2 <= MaxSeq
       /\ \E task_id \in DeleteCalls : add_pending_update("delete", task_id)
    \/ SyncNow("U1")
    \/ PushDrain
    \/ \E answer \in {"ok", "empty", "raise"} :
          (answer = "raise" => CanRetry) /\ PushEntry(answer)
    \/ PushFinish
    \/ PullFromSupabase
    \/ SyncReturn
    \/ SyncDone

\* sync_now is called again and again, and every call runs to its end.
SpecRetry ==
    /\ InitRequeue
    /\ [][NextRetry]_vars
    /\ WF_vars(SyncNow("U1"))
    /\ WF_vars(PushDrain)
    /\ WF_vars(\E answer \in {"ok", "empty", "raise"} :
                  (answer = "raise" => CanRetry) /\ PushEntry(answer))
    /\ WF_vars(PushFinish)
    /\ WF_vars(PullFromSupabase)
    /\ WF_vars(SyncReturn)
    /\ WF_vars(SyncDone)

\* One device used by two owners in turn: sync_now runs for the owner logged
\* in, with nothing queued, while time passes.
NextOwners ==
    \/ \E user_id \in Users : SyncNow(user_id)
    \/ PushDrain
    \/ PullFromSupabase
    \/ SyncReturn
    \/ SyncDone
    \/ sync.pc = "idle" /\ Tick

SpecOwners == Init /\ [][NextOwners]_vars

\* date.toordinal(): the days from 0001-01-01, which is day 1.
Ordinal(year, month, day) ==
    LET before_year == 365 * (year - 1) + ((year - 1) \div 4)
                       - ((year - 1) \div 100) + ((year - 1) \div 400)
        before_month[m \in 1..12] ==
            IF m = 1 THEN 0 ELSE before_month[m - 1] + DaysInMonth(year, m - 1)
    IN  before_year + before_month[month] + day

\* date.fromisoformat(text) for the form YYYY-MM-DD: the day as an ordinal,
\* None when it raises ValueError.
FromIsoFormat(text) ==
    IF /\ Len(text) = 10
       /\ text[5] = "-"
       /\ text[8] = "-"
       /\ \A k \in {1, 2, 3, 4, 6, 7, 9, 10} : IsDigit(text[k])
       /\ ParsesAsDate(text)
    THEN LET f == Split(text, "-")
         IN  Ordinal(NumberValue(f[1]), NumberValue(f[2]), NumberValue(f[3]))
    ELSE None

\* datetime.strptime(text, "%Y-%m-%d %H:%M").date(), None when it raises.
StrptimeDate(text) ==
    IF ParsesAsDateTime(text)
    THEN LET f == Split(SelectSeq(Split(text, " "), NonEmpty)[1], "-")
         IN  Ordinal(NumberValue(f[1]), NumberValue(f[2]), NumberValue(f[3]))
    ELSE None

Contains(text, c) == \E k \in 1..Len(text) : text[k] = c

\* parse_deadline(deadline_str): the date as an ordinal, or None.
parse_deadline(deadline_str) ==
    IF deadline_str = <<>> THEN None
    ELSE IF Contains(deadline_str, "T")
         THEN FromIsoFormat(Split(deadline_str, "T")[1])
         ELSE IF Contains(deadline_str, " ")
              THEN StrptimeDate(deadline_str)
              ELSE FromIsoFormat(deadline_str)

GroupNames == {"Today", "Tomorrow", "This Week", "Later", "No Deadline"}

\* The group the loop of group_tasks_by_date appends a task to.
GroupOf(task, today) ==
    LET dl_date == parse_deadline(task.deadline)
    IN  IF task.deadline = <<>> \/ dl_date = None THEN "No Deadline"
        ELSE IF dl_date = today THEN "Today"
        ELSE IF dl_date = today + 1 THEN "Tomorrow"
        ELSE IF today < dl_date /\ dl_date <= today + 7 THEN "This Week"
        ELSE "Later"

\* group_tasks_by_date(tasks) on the day `today`: the tasks of each group, in
\* the order of the input.
group_tasks_by_date(tasks, today) ==
    [g \in GroupNames |-> SelectSeq(tasks, LAMBDA task : GroupOf(task, today) = g)]

\* The deadline texts of the tasks: none, dates around the end of January
\* 2025 in the three formats, and texts in no accepted format.
DeadlineTexts ==
    {<<>>,
     <<"2", "0", "2", "5", "-", "0", "1", "-", "2", "9">>,
     <<"2", "0", "2", "5", "-", "0", "1", "-", "3", "0">>,
     <<"2", "0", "2", "5", "-", "0", "1", "-", "3", "1">>,
     <<"2", "0", "2", "5", "-", "0", "2", "-", "0", "6">>,
     <<"2", "0", "2", "5", "-", "0", "2", "-", "0", "7">>,
     <<"2", "0", "2", "5", "-", "1", "-", "3", "1">>,
     <<"3", "1", "/", "0", "1", "/", "2", "0", "2", "5">>,
     <<"2", "0", "2", "5", "-", "0", "1", "-", "3", "1", " ", "1", "0", ":", "0", "0">>,
     <<"2", "0", "2", "5", "-", "0", "2", "-", "0", "3", "T", "1", "5", ":", "3", "0",
       ":", "0", "0", "+", "0", "0", ":", "0", "0">>}

DeadlineTasks == [id : {"T1"}, deadline : DeadlineTexts]

\* date.today(): 2025-01-30 or 2025-01-31.
Todays == {Ordinal(2025, 1, 30), Ordinal(2025, 1, 31)}

\* render_tasks groups the tasks of the list.
GroupTasks(tasks, today) ==
    /\ grouped' = [today |-> today, tasks |-> tasks,
                   groups |-> group_tasks_by_date(tasks, today)]
    /\ UNCHANGED <<tasks_cache, queue_vars, now, last_call, last_write, remote, sync,
                   tables, all_tasks, ui, workers, config_json, current_filter>>

NextGroups ==
    \E tasks \in ListsOf(DeadlineTasks, MaxBatch) :
       \E today \in Todays : GroupTasks(tasks, today)

SpecGroups == InitRequeue /\ [][NextGroups]_vars

\* Config: the preferences kept in config.json.
ConfigKeys == {"last_filter", "last_category_filter", "theme"}

\* The values the program stores: filter names, theme names, a category, and
\* None for no category.
ConfigValues == {"all", "new", "dark", "light", "None"}

DEFAULT_CONFIG ==
    [last_filter |-> "all", last_category_filter |-> "None", theme |-> "light"]

\* A file whose text is not JSON.
CorruptFile == [exists |-> TRUE, text |-> [garbage |-> TRUE]]

\* json.dump(config, f): the file holds the JSON text of the dict.
Save(config) == [exists |-> TRUE, text |-> JsonDumps(config)]

\* The dicts a file can hold: any of the keys, each with any value.
ConfigDicts == UNION {[keys -> ConfigValues] : keys \in SUBSET ConfigKeys}

\* The files the program can find: none, an unreadable one, a saved dict.
ConfigFiles == {NoFile, CorruptFile} \cup {Save(config) : config \in ConfigDicts}

\* Config.load(): the dict of the file; the defaults when there is no file or
\* json.load raises.
Load(file) ==
    IF file.exists /\ IsJson(file.text)
    THEN JsonLoads(file.text)
    ELSE DEFAULT_CONFIG

\* Config.get(key, default): config.get(key, default) of the loaded dict.
Get(file, key, default) ==
    IF key \in DOMAIN Load(file) THEN Load(file)[key] ELSE default

\* Mutant: the dict saved holds the defaults and the key that was set.
SetOverDefaults(file, key, value) ==
    Save([k \in DOMAIN DEFAULT_CONFIG \cup {key} |->
             IF k = key THEN value ELSE DEFAULT_CONFIG[k]])

\* Config.set(key, value): config = load(); config[key] = value; save(config).
Set(file, key, value) ==
    Save([k \in DOMAIN Load(file) \cup {key} |->
             IF k = key THEN value ELSE Load(file)[k]])

get_last_filter == Get(config_json, "last_filter", "all")

\* A call of Config.set (set_last_category_filter, set_theme, ...).
ConfigSet(key, value) ==
    /\ HandlerIdle
    /\ config_json' = Set(config_json, key, value)
    /\ ui' = [pc |-> "idle",
              event |-> [handler |-> "Config.set", kind |-> "none", entries |-> <<>>,
                         remote_called |-> FALSE, key |-> key, value |-> value,
                         file_before |-> config_json]]
    /\ UNCHANGED <<tasks_cache, queue_vars, now, last_call, last_write, remote, sync,
                   tables, all_tasks, workers, current_filter, grouped>>

\* TasksScreen.set_filter(flt): the filter is applied and saved.
SetFilter(flt) ==
    /\ HandlerIdle
    /\ current_filter' = flt
    /\ config_json' = Set(config_json, "last_filter", flt)
    /\ ui' = [pc |-> "idle",
              event |-> [handler |-> "set_filter", kind |-> "none", entries |-> <<>>,
                         remote_called |-> FALSE, key |-> "last_filter", value |-> flt,
                         file_before |-> config_json]]
    /\ UNCHANGED <<tasks_cache, queue_vars, now, last_call, last_write, remote, sync,
                   tables, all_tasks, workers, grouped>>

\* The end of on_pre_enter: a saved filter other than "all" becomes the
\* current one.
RestoreFilter ==
    /\ HandlerIdle
    /\ current_filter' = IF get_last_filter # "all" THEN get_last_filter
                         ELSE current_filter
    /\ ui' = [pc |-> "idle",
              event |-> [handler |-> "on_pre_enter", kind |-> "none", entries |-> <<>>,
                         remote_called |-> FALSE]]
    /\ UNCHANGED <<tasks_cache, queue_vars, now, last_call, last_write, remote, sync,
                   tables, all_tasks, workers, config_json, grouped>>

\* The filters of the menu of the tasks screen.
Filters == {"all", "new"}

\* The tasks screen with some config.json left by earlier runs.
InitConfig ==
    /\ tasks_cache = <<>>
    /\ pending_updates = <<>>
    /\ seq = 0
    /\ now = 1
    /\ last_call = [op |-> "init", arg |-> <<>>, again |-> FALSE, changed |-> FALSE]
    /\ last_write = [id \in Ids |-> Untouched]
    /\ enqueued = <<>>
    /\ remote = {}
    /\ sync = Idle
    /\ tables = AllTables
    /\ all_tasks = <<>>
    /\ ui = UiIdle
    /\ workers = [w \in Workers |-> Idle]
    /\ config_json \in ConfigFiles
    /\ current_filter = "all"
    /\ grouped = NotGrouped

NextConfig ==
    \/ \E key \in ConfigKeys : \E value \in ConfigValues : ConfigSet(key, value)
    \/ \E flt \in Filters : SetFilter(flt)
    \/ RestoreFilter

SpecConfig == InitConfig /\ [][NextConfig]_vars

\* A form input: the texts of the title, priority and deadline fields.
ValidInput   == [title |-> <<"b">>, priority |-> <<>>, deadline |-> <<>>]
InvalidInput == [title |-> <<" ">>, priority |-> <<>>, deadline |-> <<>>]

\* The app after the login of U1, whose only task on the server, if any, is
\* T1.
InitApp ==
    /\ Init
    /\ \A r \in remote : r.id = "T1"

\* The texts typed into the forms.
FormTitles == {<<"b">>, <<" ">>, <<" ", "b", " ">>}

FormPriorities ==
    {<<>>, <<"H", "I", "G", "H">>, <<" ", "l", "o", "w">>, <<"u", "r", "g">>}

FormDeadlines ==
    {<<>>,
     <<"2", "0", "2", "5", "-", "0", "1", "-", "3", "1">>,
     <<"2", "0", "2", "5", "-", "1", "-", "5">>,
     <<"2", "0", "2", "5", "-", "0", "2", "-", "3", "0">>,
     <<"3", "1", "/", "0", "1", "/", "2", "0", "2", "5">>,
     <<"2", "0", "2", "5", "-", "0", "1", "-", "3", "1", " ", "1", "0", ":", "0", "0">>,
     <<"2", "0", "2", "5", "-", "0", "1", "-", "3", "1", " ", "2", "5", ":", "0", "0">>}

FormInputs == [title : FormTitles, priority : FormPriorities, deadline : FormDeadlines]

\* The two forms, and load_tasks with the sync_now it may run (nothing is
\* queued here, so its push finds nothing pending).
NextForms ==
    \/ LoadTasks
    \/ LoadTasksResume
    \/ \E input \in FormInputs :
          \E answer \in {"none", "ok", "raise"} : SaveTask(input, answer)
    \/ \E k \in 1..Len(all_tasks) :
          \E input \in FormInputs :
             \E answer \in {"none", "ok", "raise"} :
                SaveChanges(all_tasks[k], input, answer)
    \/ PushDrain
    \/ PullFromSupabase
    \/ SyncReturn

SpecForms == InitApp /\ [][NextForms]_vars

\* The app: the handlers of the screens and the steps of sync_now.
NextApp ==
    \/ LoadTasks
    \/ LoadTasksResume
    \/ \E k \in 1..Len(all_tasks) : ToggleDone(all_tasks[k])
    \/ \E k \in 1..Len(all_tasks) : DeleteTask(all_tasks[k])
    \/ \E input \in {ValidInput, InvalidInput} :
          \E answer \in {"none", "ok", "raise"} : SaveTask(input, answer)
    \/ \E k \in 1..Len(all_tasks) :
          \E input \in {ValidInput, InvalidInput} :
             \E answer \in {"none", "ok", "raise"} :
                SaveChanges(all_tasks[k], input, answer)
    \/ \E k \in 1..Len(all_tasks) : DetailsDeleteTask(all_tasks[k])
    \/ SyncNow(CurrentUser)
    \/ PushDrain
    \/ \E answer \in {"ok", "empty", "raise"} : PushEntry(answer)
    \/ PushFinish
    \/ PullFromSupabase
    \/ SyncReturn
    \/ SyncDone

SpecApp == InitApp /\ [][NextApp]_vars

\* The tasks screen alone, with time passing between the handlers.
NextTasksScreen ==
    \/ LoadTasks
    \/ LoadTasksResume
    \/ \E k \in 1..Len(all_tasks) : ToggleDone(all_tasks[k])
    \/ \E k \in 1..Len(all_tasks) : DeleteTask(all_tasks[k])
    \/ SyncNow(CurrentUser)
    \/ PushDrain
    \/ \E answer \in {"ok", "empty", "raise"} : PushEntry(answer)
    \/ PushFinish
    \/ PullFromSupabase
    \/ SyncReturn
    \/ SyncDone
    \/ HandlerIdle /\ Tick

SpecTasksScreen == Init /\ [][NextTasksScreen]_vars

\* The program, with a remote call of the push cancelled.
NextCancel ==
    \/ Next
    \/ CancelPush
    \/ Restart

SpecCancel == Init /\ [][NextCancel]_vars

\* The program, with failing local storage.
NextFail ==
    \/ Next
    \/ \E in_try \in BOOLEAN : PushCountFails(in_try)
    \/ \E in_try \in BOOLEAN : PushDrainFails(in_try)
    \/ \E k \in 1..(MaxSeq + 1) : PushRequeueFails(k)
    \/ \E k \in 1..(Cardinality(Ids) + 1) : \E in_try \in BOOLEAN :
          PullReplaceFails(k, in_try)

SpecFail == Init /\ [][NextFail]_vars

-----------------------------------------------------------------------------
\* Vocabulary of the properties.

\* Two records of the list carry the same id: the second INSERT hits the
\* PRIMARY KEY.
HasDuplicateIds(tasks_list) ==
    \E i, j \in 1..Len(tasks_list) : i < j /\ tasks_list[i].id = tasks_list[j].id

\* A task dict as cache_get_all hands it back: a missing updated_at reads None.
AsReturned(task) ==
    [task EXCEPT !.updated_at = IF @ = Absent THEN None ELSE @]

Occurrences(s, x) == Cardinality({i \in 1..Len(s) : s[i] = x})

\* result holds exactly the records of tasks_list, each as often as the list.
SameRecords(result, tasks_list) ==
    /\ Len(result) = Len(tasks_list)
    /\ \A i \in 1..Len(tasks_list) :
         Occurrences(result, AsReturned(tasks_list[i]))
             = Cardinality({j \in 1..Len(tasks_list) :
                              AsReturned(tasks_list[j]) = AsReturned(tasks_list[i])})

SortedByCreatedDesc(result) ==
    \A i, j \in 1..Len(result) :
        i < j => result[i].created_at >= result[j].created_at

RowsWithId(result, id) == {i \in 1..Len(result) : result[i].id = id}

\* The record cache_upsert(task), called at time `at`, is to leave in the store.
UpsertedRecord(task, at) ==
    [task EXCEPT !.updated_at = IF @ = Absent THEN at ELSE @]

-----------------------------------------------------------------------------
\* C6: cache_replace_all is all-or-nothing.  When an insert of the batch fails
\* (two records with the same id), the store is what it was before the call;
\* and in every state after a call the store is either untouched or holds the
\* whole batch, never a cleared store with a prefix of it.
C6_ReplaceAllOrNothing ==
    last_call.op = "cache_replace_all" =>
        /\ HasDuplicateIds(last_call.arg) => ~last_call.changed
        /\ \/ ~last_call.changed
           \/ /\ Len(tasks_cache) = Len(last_call.arg)
              /\ \A i \in 1..Len(last_call.arg) :
                   HasId(tasks_cache, last_call.arg[i].id)

\* A failed batch called on a store that holds rows, which are still there.
C6_Witness ==
    /\ last_call.op = "cache_replace_all"
    /\ HasDuplicateIds(last_call.arg)
    /\ Len(tasks_cache) = 2

\* C7 as stated: after cache_replace_all(X), for every list X, cache_get_all
\* returns exactly the records of X, by created_at descending.
C7_Original ==
    last_call.op = "cache_replace_all" =>
        /\ SameRecords(cache_get_all, last_call.arg)
        /\ SortedByCreatedDesc(cache_get_all)

\* C7 amended: for every prior store content and every list X whose records
\* have pairwise distinct ids, cache_replace_all(X) followed by cache_get_all()
\* returns exactly the records of X, by created_at descending.
C7_ReplaceThenGetAll ==
    (last_call.op = "cache_replace_all" /\ ~HasDuplicateIds(last_call.arg)) =>
        /\ SameRecords(cache_get_all, last_call.arg)
        /\ SortedByCreatedDesc(cache_get_all)

\* A list in ascending created_at order replaced other contents: the result
\* is its reverse.
C7_Witness ==
    /\ last_call.op = "cache_replace_all"
    /\ last_call.changed
    /\ Len(last_call.arg) = 2
    /\ ~HasDuplicateIds(last_call.arg)
    /\ last_call.arg[1].created_at < last_call.arg[2].created_at

\* C8: after any sequence of cache_upsert and cache_delete calls, cache_get_all
\* has at most one row per id; an id whose last call was an upsert has exactly
\* the record of that upsert, an id whose last call was a delete has no row.
C8_LastWritePerId ==
    \A id \in Ids :
        /\ Cardinality(RowsWithId(cache_get_all, id)) <= 1
        /\ last_write[id].kind = "upsert" =>
             \E i \in RowsWithId(cache_get_all, id) :
                 cache_get_all[i] = UpsertedRecord(last_write[id].task, last_write[id].at)
        /\ last_write[id].kind = "delete" => RowsWithId(cache_get_all, id) = {}

\* One id was deleted and the other overwritten by an upsert that changed the
\* store.
C8_Witness ==
    /\ last_call.op = "cache_upsert"
    /\ last_call.changed
    /\ last_call.arg.id = "T1"
    /\ last_write["T2"].kind = "delete"
    /\ now > 1

C2_DrainInEnqueueOrder ==
    last_call.op = "pop_pending_updates" =>
        /\ pending_updates = <<>>
        /\ last_call.again => last_call.arg = <<>>
        /\ ~last_call.again =>
             /\ Len(last_call.arg) = Len(last_call.before)
             /\ \A i \in 1..Len(last_call.arg) :
                  /\ last_call.arg[i].operation = last_call.before[i].operation
                  /\ last_call.arg[i].payload = last_call.before[i].task
                  /\ last_call.arg[i].task_id =
                         IF last_call.before[i].operation = "delete"
                         THEN last_call.before[i].task
                         ELSE last_call.before[i].task.id
             /\ \A i, j \in 1..Len(last_call.arg) :
                  i < j => last_call.arg[i].id < last_call.arg[j].id

\* Three entries, two of them enqueued at the same clock reading, were drained.
C2_Witness ==
    /\ last_call.op = "pop_pending_updates"
    /\ Len(last_call.arg) = 3
    /\ last_call.arg[1].timestamp = last_call.arg[2].timestamp
    /\ last_call.arg[2].timestamp < last_call.arg[3].timestamp
    /\ last_call.arg[1].operation = "update"
    /\ last_call.arg[2].operation = "delete"

-----------------------------------------------------------------------------
\* Vocabulary of the sync properties.

\* The push of the running sync_now has returned.
PushReturned == sync.pc \in {"pull", "return", "done"}

\* The entries of the drained batch whose remote call failed: it raised, or
\* the service returned an empty result.
FailedEntries == {i \in 1..Len(sync.updates) : sync.answers[i] # "ok"}

\* The row k of the queue is the drained entry: same task id, operation,
\* payload and timestamp.
IsEntry(row, update) ==
    /\ row.task_id = update.task_id
    /\ row.operation = update.operation
    /\ row.timestamp = update.timestamp
    /\ row.payload = IF update.operation = "delete" THEN update.payload
                     ELSE JsonDumps(update.payload)

\* The rows the pull fetched, as task dicts.
FetchedTasks == [i \in 1..Len(sync.fetched) |-> RowTask(sync.fetched[i])]

\* C1: when push_to_supabase returns, the queue holds exactly the drained
\* entries whose remote call failed (raised or was rejected with an empty
\* result), in their order, and none of those whose call succeeded.
C1_FailedEntriesRequeued ==
    sync.pc = "pull" =>
        /\ Len(pending_updates) = Cardinality(FailedEntries)
        /\ \A i \in FailedEntries :
             \E k \in 1..Len(pending_updates) :
                 IsEntry(pending_updates[k], sync.updates[i])

\* C3, where every drained entry was applied: with a delete of a task queued
\* and the task still on the remote (not deleted) when sync_now is called, the
\* task is not in the local store when sync_now returns True.
C3_DeletedTaskGoneAfterSync ==
    (/\ sync.pc = "done"
     /\ sync.result
     /\ FailedEntries = {}) =>
        \A id \in sync.deleting : ~HasId(tasks_cache, id)

\* C4: when pull_from_supabase returns True, the local store holds exactly the
\* rows the select fetched.
C4_PullIsSnapshotReplace ==
    (sync.pc = "return" /\ sync.pull_success) =>
        SameRecords(cache_get_all, FetchedTasks)

\* C5: when the select of the pull raises, sync_now returns False and the rows
\* of the local store are those it held when sync_now was called.
C5_PullFailureKeepsStore ==
    (PushReturned /\ sync.pull_answer = "raise") =>
        /\ tasks_cache = sync.cache_before
        /\ sync.pc = "done" => ~sync.result

\* The select raised after a push that applied an entry, with rows cached.
C5_Witness ==
    /\ sync.pc = "done"
    /\ sync.pull_answer = "raise"
    /\ sync.success_count > 0
    /\ tasks_cache # <<>>

-----------------------------------------------------------------------------
\* C18: init_db is idempotent.  After any call, in any state, both tables
\* exist, and every cached task row and every queued mutation that existed
\* before the call is unchanged.
C18_InitDbIdempotent ==
    last_call.op = "init_db" =>
        /\ tables = AllTables
        /\ tasks_cache = last_call.arg[1]
        /\ pending_updates = last_call.arg[2]

\* init_db was called again on a database that holds a cached task and a
\* queued mutation.
C18_Witness ==
    /\ last_call.op = "init_db"
    /\ last_call.again
    /\ Len(tasks_cache) > 0
    /\ Len(pending_updates) > 0

-----------------------------------------------------------------------------
\* C11: when two sync_now calls overlap, they never both obtain the same queue
\* entry from pop_pending_updates, so that no queued mutation is applied to
\* the remote service twice.
C11_NoEntryDrainedTwice ==
    \A w1, w2 \in Workers :
        (w1 # w2 /\ workers[w1].pc # "idle" /\ workers[w2].pc # "idle") =>
            /\ \A i \in 1..Len(workers[w1].updates) :
               \A j \in 1..Len(workers[w2].updates) :
                   workers[w1].updates[i].id # workers[w2].updates[j].id
            /\ workers[w1].applied \cap workers[w2].applied = {}

\* C12: an entry add_pending_update commits between the read and the clearing
\* of a drain is not in the returned batch and is still in the queue when the
\* drain returns: the drain removes no row it does not return.
C12_DrainIsSnapshot ==
    \A w \in Workers : workers[w].pc # "idle" => workers[w].dropped = <<>>

-----------------------------------------------------------------------------
\* The drained entries that were not applied when the push was cancelled: the
\* one whose call was cancelled, those behind it, and those whose call raised.
NotApplied ==
    {sync.updates[i] : i \in sync.i..Len(sync.updates)} \cup
    {sync.failed_updates[k] : k \in 1..Len(sync.failed_updates)}

\* C13: when a push is cancelled during a remote call, every drained entry
\* that was not applied to the remote is in the queue, and the local store is
\* as it was when sync_now was called.
C13_CancelKeepsEntries ==
    sync.pc = "cancelled" =>
        /\ \A update \in NotApplied :
             \E k \in 1..Len(pending_updates) : IsEntry(pending_updates[k], update)
        /\ tasks_cache = sync.cache_before

\* The queue holds exactly the entries of failed, in their order.
HoldsEntries(table, failed) ==
    /\ Len(table) = Len(failed)
    /\ \A k \in 1..Len(failed) : IsEntry(table[k], failed[k])

\* C14: sync_now never raises.  Whatever remote calls and local storage calls
\* fail, every step of a running sync_now has a next step until it returns a
\* boolean; when the push has returned the queue is as it was, or drained,
\* or holds all the entries to re-queue, never a part of them; when the pull
\* has returned the local store is as it was or holds all fetched rows; and
\* a returned sync_now can be followed by another.
C14_SyncNeverRaises ==
    /\ sync.pc \in {"push", "loop", "pull", "return", "done"} => ENABLED NextFail
    /\ PushReturned =>
          \/ pending_updates = sync.queue_before
          \/ pending_updates = <<>>
          \/ HoldsEntries(pending_updates, sync.failed_updates)
    /\ sync.pc \in {"return", "done"} =>
          \/ tasks_cache = sync.cache_before
          \/ SameRecords(cache_get_all, FetchedTasks)
    /\ sync.pc = "done" => sync.result \in BOOLEAN

\* A sync_now returned after its re-queue and its cache write both failed,
\* with rows in the cache.
C14_Witness ==
    /\ sync.pc = "done"
    /\ {"requeue", "replace"} \subseteq sync.storage_failures
    /\ Len(sync.failed_updates) = 2
    /\ tasks_cache # <<>>

-----------------------------------------------------------------------------
\* C15: no delete the program performs removes a row from the remote table: a
\* row that is there stays there (marked deleted=true), queryable by its id.
C15_DeletesAreSoft ==
    [][\A r \in remote : RemoteHasId(remote', r.id)]_vars

\* C16: every create, update or delete of a task made by a handler of the UI
\* appended exactly one entry to the queue, with that operation and that task
\* id: no task write reaches the local store or the remote service without
\* its queue entry.
C16_EveryWriteQueued ==
    ui.event.kind \in {"create", "update", "delete"} =>
        /\ Len(ui.event.entries) = 1
        /\ ui.event.entries[1].operation = ui.event.kind
        /\ ui.event.entries[1].task_id = ui.event.task_id

\* The load_tasks of the last handler ran no sync_now, or one that returned
\* True.
NoSyncFailed == "synced" \in DOMAIN ui.event => ui.event.synced

\* C19: when save_task has inserted a task remotely and the load_tasks of
\* go_to_tasks has returned, the created task is in all_tasks, whatever the
\* cache held before.
C19_CreatedTaskListed ==
    (/\ ui.pc = "idle"
     /\ ui.event.handler = "save_task"
     /\ ui.event.kind = "create"
     /\ NoSyncFailed) =>
        HasId(all_tasks, ui.event.task_id)

\* The status toggle_done is to leave.
OtherStatus(status) == IF status # "done" THEN "done" ELSE "new"

\* Apart from the task with this id, the two lists hold the same tasks.
SameOthers(list1, list2, id) ==
    /\ \A k \in 1..Len(list1) :
         list1[k].id # id => \E j \in 1..Len(list2) : list2[j] = list1[k]
    /\ \A k \in 1..Len(list2) :
         list2[k].id # id => \E j \in 1..Len(list1) : list1[j] = list2[k]

\* C20 as stated: after toggle_done(task), all_tasks holds one task with the
\* id of task, with the other status ('done' for a task that was not done,
\* 'new' for a done one) and every other field as in task; all other tasks
\* are unchanged.
C20_Original ==
    ui.event.handler = "toggle_done" =>
        /\ \E k \in 1..Len(all_tasks) :
             all_tasks[k] =
                 [ui.event.task EXCEPT !.status = OtherStatus(ui.event.task.status)]
        /\ Cardinality(RowsWithId(all_tasks, ui.event.task_id)) = 1
        /\ SameOthers(all_tasks, ui.event.all_before, ui.event.task_id)

\* C20 amended: after toggle_done(task), all_tasks holds one task with the
\* id of task, with the other status, updated_at set to the time of the call
\* and every other field as in task; all other tasks are as the local store
\* held them before the call, which is as all_tasks held them whenever
\* all_tasks was in step with the store.
C20_ToggleDone ==
    ui.event.handler = "toggle_done" =>
        /\ \E k \in 1..Len(all_tasks) :
             all_tasks[k] =
                 [ui.event.task EXCEPT !.status = OtherStatus(ui.event.task.status),
                                       !.updated_at = ui.event.at]
        /\ Cardinality(RowsWithId(all_tasks, ui.event.task_id)) = 1
        /\ SameOthers(all_tasks, ui.event.cache_before, ui.event.task_id)
        /\ ui.event.all_before = ui.event.cache_before =>
               SameOthers(all_tasks, ui.event.all_before, ui.event.task_id)

\* A done task was toggled back, later than its last update, with another
\* task in the list.
C20_Witness ==
    /\ ui.event.handler = "toggle_done"
    /\ ui.event.task.status = "done"
    /\ ui.event.task.updated_at < ui.event.at
    /\ Len(all_tasks) = 2

-----------------------------------------------------------------------------
\* The input of the last save_task or save_changes call.
FormCalled == ui.event.handler \in {"save_task", "save_changes"}

\* A validation failure as C17 lists them: an empty title, a priority outside
\* low/medium/high, a deadline text that parses under neither format.
FailsValidationAsStated(input) ==
    \/ FormFields(input).title = <<>>
    \/ FormFields(input).priority \notin Priorities
    \/ /\ ~ParsesAsDateTime(FormFields(input).deadline)
       /\ ~ParsesAsDate(FormFields(input).deadline)

\* C17 as stated: an input that fails validation makes save_task and
\* save_changes return before any remote call or enqueue.
C17_Original ==
    (FormCalled /\ FailsValidationAsStated(ui.event.input)) =>
        /\ ~ui.event.remote_called
        /\ ui.event.entries = <<>>

\* The optional fields: an empty priority stands for medium, an empty
\* deadline for none.
FailsValidation(input) ==
    \/ FormFields(input).title = <<>>
    \/ /\ FormFields(input).priority # <<>>
       /\ FormFields(input).priority \notin Priorities
    \/ /\ FormFields(input).deadline # <<>>
       /\ ~ParsesAsDateTime(FormFields(input).deadline)
       /\ ~ParsesAsDate(FormFields(input).deadline)

\* C17 amended: an input with an empty title, a non-empty priority outside
\* low/medium/high, or a non-empty deadline text that parses under neither
\* format makes save_task and save_changes return before any remote call or
\* enqueue.
C17_InvalidInputStaysLocal ==
    (FormCalled /\ FailsValidation(ui.event.input)) =>
        /\ ~ui.event.remote_called
        /\ ui.event.entries = <<>>
        /\ ui.event.kind = "rejected"

\* save_changes returned on a deadline that no format parses, with a title
\* and a priority that pass.
C17_Witness ==
    /\ ui.event.handler = "save_changes"
    /\ ui.event.kind = "rejected"
    /\ FormFields(ui.event.input).title # <<>>
    /\ FormFields(ui.event.input).priority \in Priorities
    /\ FormFields(ui.event.input).deadline # <<>>

-----------------------------------------------------------------------------
\* C21: when delete_task(task) has returned, with the sync of its load_tasks
\* finished if one ran, no task with the id of task is in all_tasks.
C21_DeletedTaskNotListed ==
    (ui.pc = "idle" /\ ui.event.handler = "delete_task") =>
        ~HasId(all_tasks, ui.event.task_id)

-----------------------------------------------------------------------------
\* C22: after Config.set(key, v), Config.get(key, default) returns v whatever
\* the default, and Config.get of every other key returns what it returned
\* before the call; after set_filter(f), get_last_filter() returns f.
C22_ConfigRoundTrip ==
    ui.event.handler \in {"Config.set", "set_filter"} =>
        /\ \A default \in ConfigValues :
               Get(config_json, ui.event.key, default) = ui.event.value
        /\ \A key \in ConfigKeys \ {ui.event.key} :
               \A default \in ConfigValues :
                  Get(config_json, key, default) =
                      Get(ui.event.file_before, key, default)
        /\ ui.event.handler = "set_filter" => get_last_filter = ui.event.value

\* set_filter("new") on a file that held a theme other than the default and
\* another filter: the theme is still there.
C22_Witness ==
    /\ ui.event.handler = "set_filter"
    /\ ui.event.value = "new"
    /\ ui.event.file_before.exists
    /\ Get(ui.event.file_before, "theme", "light") = "dark"
    /\ Get(ui.event.file_before, "last_filter", "all") = "all"
    /\ Get(config_json, "theme", "light") = "dark"

-----------------------------------------------------------------------------
\* What the next drain returns, in its order, with the rowids.
NextDrain == OrderByTimestampAsc(pending_updates, Len(pending_updates))

\* The push has re-queued entries and the next drain has not run yet.
HasRequeued == PushReturned /\ sync.requeued_ids # {}

\* The positions of the re-queued entries in the next drain.
RequeuedAt == {i \in 1..Len(NextDrain) : NextDrain[i].id \in sync.requeued_ids}

\* The rows queued since the failed push drained the queue.
NewAt == {i \in 1..Len(NextDrain) : NextDrain[i].id \notin sync.requeued_ids}

\* The entry of failed_updates that the re-queued entry at position i is.
OriginalOf(i) == sync.failed_updates[Cardinality({j \in RequeuedAt : j <= i})]

\* The re-queued entries come in the order of failed_updates, each with the
\* operation, task id and payload of its original.
RequeuedKeepOrder ==
    /\ Cardinality(RequeuedAt) = Len(sync.failed_updates)
    /\ \A i \in RequeuedAt :
          /\ NextDrain[i].operation = OriginalOf(i).operation
          /\ NextDrain[i].task_id = OriginalOf(i).task_id
          /\ RowUpdate(NextDrain[i]).payload = OriginalOf(i).payload

-----------------------------------------------------------------------------
\* The positions of the calls of the running sync_now that are one of `names`.
CallsAt(names) == {i \in 1..Len(sync.calls) : sync.calls[i] \in names}

RemoteWrites == {"insert", "update", "soft_delete"}

\* C24: in every sync_now invocation each remote insert, update and
\* soft-delete call comes before the remote select, the select is issued
\* once, and the local store is replaced only after the queue was drained and
\* every drained entry replayed.
C24_PushBeforePull ==
    sync.pc # "idle" =>
        /\ \A i \in CallsAt(RemoteWrites) : \A j \in CallsAt({"select"}) : i < j
        /\ Cardinality(CallsAt({"select"})) =
               IF sync.pc \in {"return", "done"} THEN 1 ELSE 0
        /\ \A j \in CallsAt({"cache_replace_all"}) :
               /\ sync.queue_before # <<>> =>
                      \E d \in CallsAt({"pop_pending_updates"}) : d < j
               /\ Cardinality({i \in CallsAt(RemoteWrites) : i < j}) =
                      Len(sync.queue_before)
               /\ pending_updates = Requeued(<<>>, sync.failed_updates, 1,
                                             seq - Len(sync.failed_updates))

\* A sync_now that drained two entries, replayed both, selected and replaced
\* the local store.
C24_Witness ==
    /\ sync.pc = "done"
    /\ Len(sync.queue_before) = 2
    /\ Cardinality(CallsAt(RemoteWrites)) = 2
    /\ CallsAt({"cache_replace_all"}) # {}

-----------------------------------------------------------------------------
\* The rows of a table for one task id.
RowsOf(table, id) == SelectSeq(table, LAMBDA row : row.id = id)

\* The task ids with a mutation in the queue.
QueuedIds == {pending_updates[k].task_id : k \in 1..Len(pending_updates)}

\* C25: after a successful pull, a task with a mutation still in the queue
\* is in the local store as it was before the sync: an updated row keeps its
\* local values, a row created locally stays, a deleted row is not back.
C25_PullKeepsQueuedRows ==
    (sync.pc \in {"return", "done"} /\ sync.pull_answer = "ok") =>
        \A id \in QueuedIds :
            RowsOf(tasks_cache, id) = RowsOf(sync.cache_before, id)

-----------------------------------------------------------------------------
\* C26: toggle_done stamps each update with the time of its call, so the
\* updated_at of a payload tells which of two queued updates of a task is the
\* newer; no push applies an update to a remote row that holds a newer one.
C26_LastWriterWins ==
    [][\A r \in remote : \A p \in remote' :
          (r.id = p.id /\ sync.pc = "loop") => p.updated_at >= r.updated_at]_vars

-----------------------------------------------------------------------------
\* A mutation of the given operation waits in the queue.
Queued(operation) ==
    \E k \in 1..Len(pending_updates) : pending_updates[k].operation = operation

\* The remote row T1 carries the queued update / is soft-deleted.
UpdateApplied ==
    \E r \in remote : r.id = "T1" /\ r.title = QueueTask("T1").title
                                   /\ r.status = QueueTask("T1").status

DeleteApplied == \E r \in remote : r.id = "T1" /\ r.deleted

\* C27: with sync_now called again and again and a service that accepts the
\* retried calls in the end, the queue becomes empty and every queued
\* mutation is applied to the remote.
C27_EventualDelivery ==
    /\ (pending_updates # <<>>) ~> (pending_updates = <<>>)
    /\ Queued("update") ~> UpdateApplied
    /\ Queued("delete") ~> DeleteApplied

-----------------------------------------------------------------------------
\* The entries of the batch whose remote call succeeded.
SucceededEntries == {i \in 1..Len(sync.updates) : sync.answers[i] = "ok"}

\* C28: in sequential operation, once a push has returned, no entry whose
\* remote call succeeded is re-queued: the queue holds the re-queued copies of
\* the failed entries only, under new rowids, so a later push cycle never
\* replays an entry that was applied.
C28_AppliedOnce ==
    PushReturned =>
        /\ \A i \in SucceededEntries :
              /\ \A k \in 1..Len(sync.failed_updates) :
                    sync.failed_updates[k].id # sync.updates[i].id
              /\ \A k \in 1..Len(pending_updates) :
                    pending_updates[k].id > sync.updates[i].id
        /\ Len(pending_updates) = Len(sync.failed_updates)
        /\ \A k \in 1..Len(pending_updates) :
              IsEntry(pending_updates[k], sync.failed_updates[k])

\* A push applied one entry and re-queued another.
C28_Witness ==
    /\ PushReturned
    /\ SucceededEntries # {}
    /\ pending_updates # <<>>
    /\ Len(sync.updates) = 2

-----------------------------------------------------------------------------
\* C29: when sync_now(U) returns True, every row of the local store belongs
\* to U.
C29_OwnerIsolation ==
    (sync.pc = "done" /\ sync.result) =>
        \A k \in 1..Len(tasks_cache) : tasks_cache[k].user_id = sync.user_id

-----------------------------------------------------------------------------
\* The documented definition of each group.
Documented(g, task, today) ==
    LET dl_date == parse_deadline(task.deadline)
    IN  CASE g = "Today"       -> dl_date # None /\ dl_date = today
          [] g = "Tomorrow"    -> dl_date # None /\ dl_date = today + 1
          [] g = "This Week"   -> dl_date # None /\ dl_date > today
                                                 /\ dl_date <= today + 7
          [] g = "Later"       -> dl_date # None /\ dl_date > today + 7
          [] g = "No Deadline" -> dl_date = None

\* C30: group_tasks_by_date puts every task in one group, and each task of a
\* group meets the documented definition of the group.
C30_GroupsAsDocumented ==
    grouped # NotGrouped =>
        /\ \A task \in DeadlineTasks :
              Occurrences(grouped.tasks, task) =
                  Cardinality({<<g, k>> \in GroupNames \X (1..Len(grouped.tasks)) :
                                  /\ k <= Len(grouped.groups[g])
                                  /\ grouped.groups[g][k] = task})
        /\ \A g \in GroupNames :
              \A k \in 1..Len(grouped.groups[g]) :
                 Documented(g, grouped.groups[g][k], grouped.today)

====
